---- MODULE Spec2Model ----
(***************************************************************************)
(* Model of src/rayserve_deployments/llm_serve.py: the LLMModel adapter    *)
(* (start, __call__) and the LLMService deployment (reconfigure and the    *)
(* serve.batch-decorated __call__).                                        *)
(*                                                                         *)
(* Python values are encoded as follows: a dict is a function whose        *)
(* DOMAIN is the set of keys present, None is the string "None", the       *)
(* empty mapping {} is the string "{}", a list is a sequence.  Durations   *)
(* are counted in units of 0.05 s.                                         *)
(***************************************************************************)
EXTENDS Integers, Sequences, FiniteSets, TLC

\* ---------------------------------------------------------------- bounds
MaxBatchLen == 2
MaxRequests == 17

\* ------------------------------------------------------- python encodings
None == "None"
EmptyMapping == "{}"

\* dict.get(key, default)
Get(d, key, default) == IF key \in DOMAIN d THEN d[key] ELSE default

\* truthiness of an optional `tools` value (None and the empty list are falsy)
Truthy(v) == v \notin {None, "[]"}

\* ------------------------------------------------------------ the inputs
\* The chat messages a Request may carry.  The first message decides what
\* the underlying model runtime does with the request (see ModelRun).
MessageKinds == {"hello", "use_tool", "boom", "no_choices", "empty_choices"}
MessagesValues == {<<>>} \cup {<<k>> : k \in MessageKinds}

\* Requests are dicts; any key may be absent.
Requests ==
  { [request_id |-> "r1", messages |-> m] : m \in MessagesValues }
  \cup { [messages |-> <<>>], [messages |-> <<"hello">>], [request_id |-> "r1"],
         [request_id |-> "r2", messages |-> <<"hello">>],
         [request_id |-> "r1", messages |-> <<>>, tools |-> "tools1"],
         [request_id |-> "r1", messages |-> <<"use_tool">>, tools |-> "tools1"] }

RECURSIVE SeqsUpTo(_, _)
SeqsUpTo(S, n) ==
  IF n = 0 THEN {<<>>}
  ELSE LET shorter == SeqsUpTo(S, n - 1)
       IN shorter \cup { Append(s, x) : s \in {t \in shorter : Len(t) = n - 1}, x \in S }

Batches == SeqsUpTo(Requests, MaxBatchLen)

\* --------------------------------------------------- the model runtime
\* self.model.create_chat_completion(...): the external runtime, here a
\* deterministic stub keyed by the first message.  It either raises or
\* returns a response dict, which may be malformed.
ModelRun(messages, response_format) ==
  CASE messages[1] = "hello" ->
         [raised |-> FALSE,
          response |-> [choices |-> <<[message |-> [content |-> "hi"]]>>,
                        usage |-> "u1"]]
    [] messages[1] = "use_tool" ->
         [raised |-> FALSE,
          response |-> [choices |-> <<[message |-> [content |-> None,
                                                    tool_calls |-> "tc1"]]>>]]
    [] messages[1] = "boom" ->
         [raised |-> TRUE, error |-> "model_error"]
    [] messages[1] = "no_choices" ->
         [raised |-> FALSE, response |-> [usage |-> "u1"]]
    [] OTHER ->
         [raised |-> FALSE, response |-> [choices |-> <<>>, usage |-> "u1"]]

\* ------------------------------------------------- LLMModel.__call__ body
\* (variant: the empty-messages failure keeps an empty content string)
EmptyMessagesResultWithContent(request_id) ==
  [request_id |-> request_id, success |-> FALSE, error |-> "empty_messages",
   content |-> "", tool_calls |-> None]

\* lines 52-58: the failure Result of a request without messages
EmptyMessagesResult(request_id) ==
  [request_id |-> request_id, success |-> FALSE, error |-> "empty_messages",
   content |-> None, tool_calls |-> None]

\* (variant: the except clause reports the failure but leaves success set)
ExceptResultStillSuccess(request_id, e) ==
  [request_id |-> request_id, success |-> TRUE, error |-> e,
   content |-> None, tool_calls |-> None]

\* lines 94-100: the failure Result built by the except clause
ExceptResult(request_id, e) ==
  [request_id |-> request_id, success |-> FALSE, error |-> e,
   content |-> None, tool_calls |-> None]

\* lines 83-90: the success Result
SuccessResult(request_id, content, tool_calls, usage) ==
  [request_id |-> request_id, success |-> TRUE, error |-> None,
   content |-> content, tool_calls |-> tool_calls, usage |-> usage]

\* lines 61-100: the try block for one request with messages; str(e) of the
\* KeyError / IndexError raised by response["choices"][0]["message"]
TryRequest(request_id, messages, tools) ==
  LET out == ModelRun(messages, IF Truthy(tools) THEN "json_object" ELSE None)
  IN IF out.raised THEN ExceptResult(request_id, out.error)
     ELSE LET response == out.response
          IN IF "choices" \notin DOMAIN response
               THEN ExceptResult(request_id, "'choices'")
             ELSE IF Len(response["choices"]) = 0
               THEN ExceptResult(request_id, "list index out of range")
             ELSE LET choice == response["choices"][1]
                  IN IF "message" \notin DOMAIN choice
                       THEN ExceptResult(request_id, "'message'")
                     ELSE LET message == choice["message"]
                          IN SuccessResult(request_id,
                                           Get(message, "content", None),
                                           Get(message, "tool_calls", None),
                                           Get(response, "usage", EmptyMapping))

\* `if not messages` (line 50)
NoMessages(request) == Len(Get(request, "messages", <<>>)) = 0

\* lines 41-100: one iteration of the for loop
ProcessRequest(request) ==
  LET request_id == Get(request, "request_id", "unknown")
      messages == Get(request, "messages", <<>>)
      tools == Get(request, "tools", None)
  IN IF NoMessages(request) THEN EmptyMessagesResult(request_id)
     ELSE TryRequest(request_id, messages, tools)

\* ----------------------------------------------------------------- state
VARIABLES
  model,      \* LLMModel.model: None or "Llama"
  loads,      \* number of Llama(...) constructions completed
  ipc,        \* position of the adapter call: idle, start, loop, returned, raised
  requests,   \* the batch given to LLMModel.__call__
  idx,        \* position of the for loop in requests
  results,    \* the results list being built
  invoked,    \* positions for which create_chat_completion was called
  max_batch_size,        \* LLMService.max_batch_size
  batch_wait_timeout_s,  \* LLMService.batch_wait_timeout_s
  queue_max_batch_size,  \* max_batch_size of the batch queue of LLMService.__call__
  queue_timeout_s,       \* batch_wait_timeout_s of that batch queue
  reconfigured,          \* the last reconfigure call and how it ended
  submitted,  \* the Requests given to LLMService.__call__, in submission order
  queue,      \* submissions waiting in the batch queue (indices into submitted)
  event,      \* the queue's requests-available event
  wpc,        \* the batching loop: "get" (no window open), "wait" (window
              \* open) or "process" (running the handler on a closed batch)
  batch,      \* the submissions of the open window
  snapshot,   \* the configuration cached when the window opened
  elapsed,    \* time since the window opened
  invoking,   \* the batch the handler is running, <<>> if none
  outcome,    \* per submission: what its caller has received
  assigned,   \* per submission: the number of closed batches it is part of
  lastClosed, \* how the most recent window closed
  burst       \* submissions made back to back since the dispatcher was idle

ivars == <<model, loads, ipc, requests, idx, results, invoked>>
cvars == <<max_batch_size, batch_wait_timeout_s, queue_max_batch_size,
           queue_timeout_s, reconfigured>>
dvars == <<submitted, queue, event, wpc, batch, snapshot, elapsed, invoking, outcome, assigned, lastClosed, burst>>

vars == <<ivars, cvars, dvars>>

\* ------------------------------------------------------- adapter actions
\* (variant: a failed request ends the loop, as `break` or a re-raise would)
LoopNextStopsOnFailure(i, result) ==
  IF result.success THEN i + 1 ELSE Len(requests) + 1

\* the index the for loop visits after position i (line 40; `continue` on
\* line 59 and the except clause both fall through to the next request)
LoopNext(i, result) == i + 1

\* LLMModel.__call__ is entered with a batch (lines 36-39)
InferCall(reqs) ==
  /\ ipc \in {"idle", "returned", "raised"}
  /\ ipc' = "start"
  /\ requests' = reqs
  /\ idx' = 1
  /\ results' = <<>>
  /\ invoked' = {}
  /\ UNCHANGED <<model, loads>>

\* (variant: start() constructs Llama(...) again although a model is loaded)
StartReloads ==
  /\ ipc = "start"
  /\ model # None
  /\ model' = "Llama"
  /\ loads' = loads + 1
  /\ ipc' = "loop"
  /\ UNCHANGED <<requests, idx, results, invoked, cvars, dvars>>

\* self.start(): the model is already loaded
StartLoaded ==
  /\ ipc = "start"
  /\ model # None
  /\ ipc' = "loop"
  /\ UNCHANGED <<model, loads, requests, idx, results, invoked, cvars, dvars>>

\* self.start(): Llama(...) is constructed and returns
StartLoad ==
  /\ ipc = "start"
  /\ model = None
  /\ model' = "Llama"
  /\ loads' = loads + 1
  /\ ipc' = "loop"
  /\ UNCHANGED <<requests, idx, results, invoked, cvars, dvars>>

\* (variant: the failed construction leaves self.model set, so later calls
\* skip the load)
StartRaisePoisons ==
  /\ ipc = "start"
  /\ model = None
  /\ model' = "Failed"
  /\ ipc' = "raised"
  /\ UNCHANGED <<loads, requests, idx, results, invoked, cvars, dvars>>

\* self.start(): Llama(...) raises; the exception leaves __call__ (line 37
\* is outside every try)
StartRaise ==
  /\ ipc = "start"
  /\ model = None
  /\ ipc' = "raised"
  /\ UNCHANGED <<model, loads, requests, idx, results, invoked, cvars, dvars>>

\* (variant: `continue` is taken before the failure Result is appended)
InferStepSkipsEmpty ==
  /\ ipc = "loop"
  /\ idx <= Len(requests)
  /\ LET result == ProcessRequest(requests[idx])
     IN /\ results' = IF NoMessages(requests[idx]) THEN results
                      ELSE Append(results, result)
        /\ idx' = LoopNext(idx, result)
        /\ invoked' = IF NoMessages(requests[idx]) THEN invoked
                      ELSE invoked \cup {idx}
  /\ UNCHANGED <<model, loads, ipc, requests, cvars, dvars>>

\* one iteration of `for request in requests`
InferStep ==
  /\ ipc = "loop"
  /\ idx <= Len(requests)
  /\ LET result == ProcessRequest(requests[idx])
     IN /\ results' = Append(results, result)
        /\ idx' = LoopNext(idx, result)
        /\ invoked' = IF NoMessages(requests[idx]) THEN invoked
                      ELSE invoked \cup {idx}
  /\ UNCHANGED <<model, loads, ipc, requests, cvars, dvars>>

\* `return results` (line 102)
InferReturn ==
  /\ ipc = "loop"
  /\ idx > Len(requests)
  /\ ipc' = "returned"
  /\ UNCHANGED <<model, loads, requests, idx, results, invoked, cvars, dvars>>

\* ------------------------------------------------ LLMService.reconfigure
\* the defaults of lines 129-130 and 133-134, and the decorator's arguments
\* on line 138 (0.05 s is one time unit)
DefaultMaxBatchSize == 16
DefaultBatchWaitTimeoutS == 1
BatchMaxBatchSize == 16
BatchWaitTimeoutS == 1

UserConfigs ==
  { [max_batch_size |-> 2, batch_wait_timeout_s |-> 2],
    [max_batch_size |-> 0, batch_wait_timeout_s |-> 2],
    [max_batch_size |-> 2, batch_wait_timeout_s |-> -1],
    [max_batch_size |-> 2],
    [batch_wait_timeout_s |-> 0] }

\* lines 133-134: the values reconfigure records on the service
RecordedMaxBatchSize(user_config) ==
  Get(user_config, "max_batch_size", DefaultMaxBatchSize)

\* (variant: an omitted key keeps the value recorded before the call)
RecordedBatchWaitTimeoutSKeeps(user_config) ==
  Get(user_config, "batch_wait_timeout_s", batch_wait_timeout_s)

RecordedBatchWaitTimeoutS(user_config) ==
  Get(user_config, "batch_wait_timeout_s", DefaultBatchWaitTimeoutS)

\* the keys user_config omits whose recorded value, before the call, was
\* not the default that lines 133-134 put in its place
Replaced(user_config) ==
  {k \in {"max_batch_size"} :
     k \notin DOMAIN user_config /\ max_batch_size # DefaultMaxBatchSize} \cup
  {k \in {"batch_wait_timeout_s"} :
     k \notin DOMAIN user_config /\ batch_wait_timeout_s # DefaultBatchWaitTimeoutS}

\* line 135: self.model is the LLMModel, whose __call__ is a plain method
\* and not the serve.batch wrapper; the attribute lookup
\* self.model.__call__.set_max_batch_size raises
SetterLookup == "AttributeError"

\* (variant: set_max_batch_size reaches the batch queue and the call fails
\* before set_batch_wait_timeout_s)
ReconfigureTorn(user_config) ==
  /\ ipc = "idle"
  /\ max_batch_size' = RecordedMaxBatchSize(user_config)
  /\ batch_wait_timeout_s' = RecordedBatchWaitTimeoutS(user_config)
  /\ reconfigured' = [called |-> TRUE, user_config |-> user_config,
                      error |-> SetterLookup,
                      replaced |-> Replaced(user_config)]
  /\ queue_max_batch_size' = RecordedMaxBatchSize(user_config)
  /\ UNCHANGED <<queue_timeout_s, ivars, dvars>>

\* (variant: reconfigure drops the requests waiting on the batch queue)
ReconfigureFlushes(user_config) ==
  /\ ipc = "idle"
  /\ max_batch_size' = RecordedMaxBatchSize(user_config)
  /\ batch_wait_timeout_s' = RecordedBatchWaitTimeoutS(user_config)
  /\ reconfigured' = [called |-> TRUE, user_config |-> user_config,
                      error |-> SetterLookup,
                      replaced |-> Replaced(user_config)]
  /\ queue' = <<>>
  /\ event' = FALSE
  /\ UNCHANGED <<queue_max_batch_size, queue_timeout_s, ivars,
                 submitted, wpc, batch, snapshot, elapsed, invoking, outcome,
                 assigned, lastClosed, burst>>

\* reconfigure(user_config): lines 133-134 run, line 135 raises, so the
\* batch queue of LLMService.__call__ keeps its settings
Reconfigure(user_config) ==
  /\ ipc = "idle"
  /\ max_batch_size' = RecordedMaxBatchSize(user_config)
  /\ batch_wait_timeout_s' = RecordedBatchWaitTimeoutS(user_config)
  /\ reconfigured' = [called |-> TRUE, user_config |-> user_config,
                      error |-> SetterLookup,
                      replaced |-> Replaced(user_config)]
  /\ UNCHANGED <<queue_max_batch_size, queue_timeout_s, ivars, dvars>>

\* ------------------------------- LLMService.__call__ under serve.batch
\* The batching is the serve.batch decorator's (line 138), modelled by its
\* documented behaviour: callers' requests wait on a FIFO queue; one loop
\* takes the first request of a batch, caches max_batch_size and
\* batch_wait_timeout_s, collects arrivals until the batch is full or the
\* timeout has elapsed since the first request, runs the handler on the
\* batch and hands each caller the result at its position, or the handler's
\* exception.  LLMModel.__call__ has no await, so a handler run is not
\* interleaved with submissions.
\* The requests callers submit rotate over three kinds: a plain chat, one
\* without messages, one on which the model raises.
DispatchRequests ==
  << [request_id |-> "r1", messages |-> <<"hello">>],
     [request_id |-> "r2", messages |-> <<>>],
     [request_id |-> "r3", messages |-> <<"boom">>] >>

RequestOf(id) == DispatchRequests[((id - 1) % 3) + 1]

Min(a, b) == IF a < b THEN a ELSE b

\* no pending request, no open window, no batch being run
Idle == queue = <<>> /\ wpc = "get"

\* a caller enters LLMService.__call__: its request is put on the batch
\* queue and the caller waits for its result
Submit ==
  /\ ipc = "idle"
  /\ Len(submitted) < MaxRequests
  /\ LET id == Len(submitted) + 1
     IN /\ submitted' = Append(submitted, RequestOf(id))
        /\ queue' = Append(queue, id)
        /\ burst' = IF Idle THEN [first |-> id, n |-> 1]
                    ELSE IF burst.first # 0 THEN [burst EXCEPT !.n = @ + 1]
                    ELSE burst
  /\ event' = TRUE
  /\ outcome' = Append(outcome, [status |-> "pending"])
  /\ assigned' = Append(assigned, 0)
  /\ UNCHANGED <<wpc, batch, snapshot, elapsed, invoking, lastClosed,
                 ivars, cvars>>

\* time passes while a window is open; a back-to-back burst still short of
\* a full batch ends
Tick ==
  /\ wpc = "wait"
  /\ elapsed < snapshot.batch_wait_timeout_s
  /\ elapsed' = elapsed + 1
  /\ burst' = IF burst.first # 0 /\ burst.n < snapshot.max_batch_size
              THEN [first |-> 0, n |-> 0] ELSE burst
  /\ UNCHANGED <<submitted, queue, event, wpc, batch, snapshot, invoking,
                 outcome, assigned, lastClosed, ivars, cvars>>

\* the batching loop takes the first request of a new window and caches
\* the queue's settings for this window
OpenWindow ==
  /\ ipc = "idle"
  /\ wpc = "get"
  /\ queue # <<>>
  /\ batch' = <<Head(queue)>>
  /\ queue' = Tail(queue)
  /\ snapshot' = [max_batch_size |-> queue_max_batch_size,
                  batch_wait_timeout_s |-> queue_timeout_s]
  /\ elapsed' = 0
  /\ wpc' = "wait"
  /\ UNCHANGED <<submitted, event, invoking, outcome, assigned, lastClosed,
                 burst, ivars, cvars>>

\* (variant: the pass takes every arrival, without the max_batch_size limit)
DrainedUnlimited(b, q, max) == [batch |-> b \o q, queue |-> <<>>]

\* (variant: the pass copies the arrivals and leaves them on the queue)
DrainedNotRemoved(b, q, max) ==
  LET take == IF max - Len(b) < 0 THEN 0 ELSE Min(max - Len(b), Len(q))
  IN [batch |-> b \o SubSeq(q, 1, take), queue |-> q]

\* (variant: the pass stops one request after the limit, `>` for `>=`)
DrainedOneMore(b, q, max) ==
  LET take == IF max + 1 - Len(b) < 0 THEN 0 ELSE Min(max + 1 - Len(b), Len(q))
  IN [batch |-> b \o SubSeq(q, 1, take), queue |-> SubSeq(q, take + 1, Len(q))]

\* one pass of the window's loop moves the arrivals into the batch, up to
\* max_batch_size
Drained(b, q, max) ==
  LET take == IF max - Len(b) < 0 THEN 0 ELSE Min(max - Len(b), Len(q))
  IN [batch |-> b \o SubSeq(q, 1, take), queue |-> SubSeq(q, take + 1, Len(q))]

\* (variant: the window closes on the first pass that finds a request)
ClosesOnArrival(b, waited, snap) == Len(b) >= 1

\* the window closes when the timeout has elapsed or the batch is full
Closes(b, waited, snap) ==
  \/ waited >= snap.batch_wait_timeout_s
  \/ Len(b) >= snap.max_batch_size

\* the loop wakes on an arrival or when the timeout has elapsed
Woken == event \/ elapsed >= snapshot.batch_wait_timeout_s

\* a pass of the loop that leaves the window open
IterateContinue ==
  /\ ipc = "idle"
  /\ wpc = "wait"
  /\ Woken
  /\ LET d == Drained(batch, queue, snapshot.max_batch_size)
     IN /\ ~Closes(d.batch, elapsed, snapshot)
        /\ batch' = d.batch
        /\ queue' = d.queue
        /\ event' = IF d.queue = <<>> THEN FALSE ELSE event
  /\ UNCHANGED <<submitted, wpc, snapshot, elapsed, invoking, outcome,
                 assigned, lastClosed, burst, ivars, cvars>>

\* (variant: the loop does not wait for self.model(requests) and goes on
\* to the next window)
IterateCloseDetached ==
  /\ ipc \in {"idle", "returned", "raised"}
  /\ wpc = "wait"
  /\ Woken
  /\ LET d == Drained(batch, queue, snapshot.max_batch_size)
     IN /\ Closes(d.batch, elapsed, snapshot)
        /\ invoking' = d.batch
        /\ queue' = d.queue
        /\ event' = IF d.queue = <<>> THEN FALSE ELSE event
        /\ assigned' = [i \in DOMAIN assigned |->
                          IF \E k \in DOMAIN d.batch : d.batch[k] = i
                          THEN assigned[i] + 1 ELSE assigned[i]]
        /\ lastClosed' = [reqs |-> d.batch,
                          elapsed |-> elapsed,
                          snapshot |-> snapshot,
                          upto |-> Len(submitted) - Len(d.queue),
                          burst |-> burst]
        /\ InferCall([k \in DOMAIN d.batch |-> submitted[d.batch[k]]])
  /\ batch' = <<>>
  /\ wpc' = "get"
  /\ UNCHANGED <<submitted, snapshot, elapsed, outcome, burst, cvars>>

\* a pass of the loop that closes the window: the batch is frozen and passed
\* to LLMService.__call__, which calls self.model(requests) (line 140)
IterateClose ==
  /\ ipc = "idle"
  /\ wpc = "wait"
  /\ Woken
  /\ LET d == Drained(batch, queue, snapshot.max_batch_size)
     IN /\ Closes(d.batch, elapsed, snapshot)
        /\ invoking' = d.batch
        /\ queue' = d.queue
        /\ event' = IF d.queue = <<>> THEN FALSE ELSE event
        /\ assigned' = [i \in DOMAIN assigned |->
                          IF \E k \in DOMAIN d.batch : d.batch[k] = i
                          THEN assigned[i] + 1 ELSE assigned[i]]
        /\ lastClosed' = [reqs |-> d.batch,
                          elapsed |-> elapsed,
                          snapshot |-> snapshot,
                          upto |-> Len(submitted) - Len(d.queue),
                          burst |-> burst]
        /\ InferCall([k \in DOMAIN d.batch |-> submitted[d.batch[k]]])
  /\ batch' = <<>>
  /\ wpc' = "process"
  /\ UNCHANGED <<submitted, snapshot, elapsed, outcome, burst, cvars>>

\* what the caller at position k of the batch receives when the handler
\* returned the list `returned`
Delivered(returned, k) == [status |-> "result", result |-> returned[k]]

\* the handler returned: each caller gets the result at its position
Deliver ==
  /\ ipc = "returned"
  /\ wpc = "process"
  /\ outcome' = [i \in DOMAIN outcome |->
                   IF \E k \in DOMAIN invoking : invoking[k] = i
                   THEN IF Len(results) = Len(invoking)
                        THEN Delivered(results,
                                       CHOOSE k \in DOMAIN invoking : invoking[k] = i)
                        ELSE [status |-> "exception", error |-> "RayServeException"]
                   ELSE outcome[i]]
  /\ invoking' = <<>>
  /\ wpc' = "get"
  /\ ipc' = "idle"
  /\ requests' = <<>>
  /\ results' = <<>>
  /\ idx' = 1
  /\ invoked' = {}
  /\ UNCHANGED <<model, loads, submitted, queue, event, batch, snapshot,
                 elapsed, assigned, lastClosed, burst, cvars>>

\* what each caller of the batch receives when the handler raised: line 140
\* has no try, so the exception of self.model(requests) is the handler's
RaisedOutcome == [status |-> "exception", error |-> "load_error"]

\* the handler raised: the exception is set on every caller of the batch
DeliverException ==
  /\ ipc = "raised"
  /\ wpc = "process"
  /\ outcome' = [i \in DOMAIN outcome |->
                   IF \E k \in DOMAIN invoking : invoking[k] = i
                   THEN RaisedOutcome ELSE outcome[i]]
  /\ invoking' = <<>>
  /\ wpc' = "get"
  /\ ipc' = "idle"
  /\ requests' = <<>>
  /\ results' = <<>>
  /\ idx' = 1
  /\ invoked' = {}
  /\ UNCHANGED <<model, loads, submitted, queue, event, batch, snapshot,
                 elapsed, assigned, lastClosed, burst, cvars>>

\* --------------------------------------------------------- specifications
\* the state after LLMService.__init__ (lines 127-130) and LLMModel.__init__
Init ==
  /\ model = None
  /\ loads = 0
  /\ ipc = "idle"
  /\ requests = <<>>
  /\ idx = 1
  /\ results = <<>>
  /\ invoked = {}
  /\ max_batch_size = DefaultMaxBatchSize
  /\ batch_wait_timeout_s = DefaultBatchWaitTimeoutS
  /\ queue_max_batch_size = BatchMaxBatchSize
  /\ queue_timeout_s = BatchWaitTimeoutS
  /\ reconfigured = [called |-> FALSE]
  /\ submitted = <<>>
  /\ queue = <<>>
  /\ event = FALSE
  /\ wpc = "get"
  /\ batch = <<>>
  /\ snapshot = [max_batch_size |-> BatchMaxBatchSize,
                 batch_wait_timeout_s |-> BatchWaitTimeoutS]
  /\ elapsed = 0
  /\ invoking = <<>>
  /\ outcome = <<>>
  /\ assigned = <<>>
  /\ lastClosed = [reqs |-> <<>>]
  /\ burst = [first |-> 0, n |-> 0]

\* the adapter called directly with batches
NextInfer ==
  \/ \E b \in Batches : InferCall(b) /\ UNCHANGED <<cvars, dvars>>
  \/ StartLoaded
  \/ StartLoad
  \/ StartRaise
  \/ InferStep
  \/ InferReturn

SpecInfer == Init /\ [][NextInfer]_vars

\* the deployment: callers submit, the operator reconfigures
Next ==
  \/ Submit
  \/ Tick
  \/ OpenWindow
  \/ IterateContinue
  \/ IterateClose
  \/ StartLoaded
  \/ StartLoad
  \/ StartRaise
  \/ InferStep
  \/ InferReturn
  \/ Deliver
  \/ DeliverException
  \/ \E c \in UserConfigs : Reconfigure(c)

Spec == Init /\ [][Next]_vars

\* ------------------------------------------------------------ properties
\* the request_id a Result must carry for a Request
IdOf(request) ==
  IF "request_id" \in DOMAIN request THEN request["request_id"] ELSE "unknown"

\* the Request has no messages (an empty sequence, or none given)
EmptyMessages(request) ==
  IF "messages" \in DOMAIN request THEN request["messages"] = <<>> ELSE TRUE

\* C1: when LLMModel.__call__ returns, the list has one Result per Request
\* of the batch (also for the empty batch), and the Result at position i
\* carries the request_id of the Request at i, or "unknown" without one.
C1_OneResultPerRequestInOrder ==
  ipc = "returned" =>
    /\ Len(results) = Len(requests)
    /\ \A i \in DOMAIN requests : results[i].request_id = IdOf(requests[i])

C1_Witness ==
  /\ ipc = "returned"
  /\ Len(requests) = 2
  /\ "request_id" \notin DOMAIN requests[1]
  /\ EmptyMessages(requests[1])
  /\ requests[2] = [request_id |-> "r2", messages |-> <<"hello">>]
  /\ results[1].request_id = "unknown"
  /\ results[2].request_id = "r2"

\* C2: a Request without messages gets, at its own position, the Result
\* success=false, error="empty_messages", content=null, tool_calls=null,
\* whatever its other fields, and the model is not invoked for it.
C2_EmptyMessagesFailure ==
  \A i \in DOMAIN requests :
    EmptyMessages(requests[i]) =>
      /\ i \notin invoked
      /\ ipc = "returned" => i \in DOMAIN results
      /\ i \in DOMAIN results =>
           /\ results[i].success = FALSE
           /\ results[i].error = "empty_messages"
           /\ results[i].content = None
           /\ results[i].tool_calls = None

C2_Witness ==
  /\ ipc = "returned"
  /\ Len(requests) = 2
  /\ requests[1] = [request_id |-> "r1", messages |-> <<"hello">>]
  /\ requests[2] = [request_id |-> "r1", messages |-> <<>>, tools |-> "tools1"]
  /\ invoked = {1}
  /\ results[2].error = "empty_messages"

\* the failure message the Request's own processing produces, None if its
\* processing succeeds
OwnFailure(request) ==
  IF EmptyMessages(request) THEN "empty_messages"
  ELSE CASE request["messages"][1] = "boom" -> "model_error"
         [] request["messages"][1] = "no_choices" -> "'choices'"
         [] request["messages"][1] = "empty_choices" -> "list index out of range"
         [] OTHER -> None

\* C3: failure isolation.  When the call returns, a Request whose own
\* processing fails (no messages, the model raising, malformed output) has
\* a failure Result with that failure's message at its position, and every
\* position holds the Result its Request gets in a batch of its own, so no
\* failure changes what the other Requests get.
C3_FailureIsolation ==
  ipc = "returned" =>
    \A i \in DOMAIN requests :
      /\ i \in DOMAIN results
      /\ results[i] = ProcessRequest(requests[i])
      /\ results[i].success = (OwnFailure(requests[i]) = None)
      /\ results[i].error = OwnFailure(requests[i])

C3_Witness ==
  /\ ipc = "returned"
  /\ Len(requests) = 2
  /\ OwnFailure(requests[1]) = "model_error"
  /\ results[1].success = FALSE
  /\ results[1].error = "model_error"
  /\ results[2].success = TRUE
  /\ results[2].content = "hi"

\* C4: in every Result, success=true implies error=null, and success=false
\* implies content=null and tool_calls=null.
C4_ResultInvariant ==
  \A i \in DOMAIN results :
    /\ results[i].success = TRUE => results[i].error = None
    /\ results[i].success = FALSE =>
         results[i].content = None /\ results[i].tool_calls = None

C4_Witness ==
  /\ Len(results) = 2
  /\ results[1].success = TRUE
  /\ results[1].tool_calls = "tc1"
  /\ results[2].success = FALSE
  /\ results[2].error = "'choices'"

\* C5: when the adapter call for a batch fails as a whole, every caller of
\* the batch still receives a Result with success=false and a non-null
\* error: what a caller of submit receives is never an exception.
C5_WholesaleFailureYieldsResults ==
  \A i \in DOMAIN outcome :
    \/ outcome[i].status = "pending"
    \/ /\ outcome[i].status = "result"
       /\ outcome[i].result.success = FALSE => outcome[i].result.error # None

\* a BatchConfig is valid when max_batch_size > 0 and batch_wait_timeout >= 0
ValidConfig(user_config) ==
  /\ "max_batch_size" \in DOMAIN user_config
  /\ "batch_wait_timeout_s" \in DOMAIN user_config
  /\ user_config["max_batch_size"] > 0
  /\ user_config["batch_wait_timeout_s"] >= 0

InvalidConfig(user_config) ==
  \/ "max_batch_size" \in DOMAIN user_config /\ user_config["max_batch_size"] <= 0
  \/ "batch_wait_timeout_s" \in DOMAIN user_config
       /\ user_config["batch_wait_timeout_s"] < 0

\* C6: a reconfigure with max_batch_size <= 0 or batch_wait_timeout < 0
\* fails with InvalidConfig and changes neither the values recorded on the
\* service nor the values that govern the batches.
C6_InvalidConfigLeavesConfigUntouched ==
  [][ (reconfigured' # reconfigured /\ InvalidConfig(reconfigured'.user_config)) =>
        /\ reconfigured'.error = "InvalidConfig"
        /\ max_batch_size' = max_batch_size
        /\ batch_wait_timeout_s' = batch_wait_timeout_s
        /\ queue_max_batch_size' = queue_max_batch_size
        /\ queue_timeout_s' = queue_timeout_s ]_vars

\* C7: an open window keeps the snapshot it took when it opened, and a
\* window that opens after a reconfigure with a valid BatchConfig takes the
\* new max_batch_size and batch_wait_timeout as its snapshot.
C7_NewConfigGovernsLaterWindows ==
  [][ /\ (wpc = "wait" /\ wpc' = "wait") => snapshot' = snapshot
      /\ (wpc = "get" /\ wpc' = "wait" /\ reconfigured.called
            /\ ValidConfig(reconfigured.user_config)) =>
           /\ snapshot'.max_batch_size = reconfigured.user_config["max_batch_size"]
           /\ snapshot'.batch_wait_timeout_s =
                reconfigured.user_config["batch_wait_timeout_s"] ]_vars

\* the submissions first, first + 1, ..., first + n - 1
Run(first, n) == [k \in 1..n |-> first + k - 1]

\* C8: max_batch_size requests submitted back to back to an idle dispatcher
\* form exactly one batch.  A window that holds the first request of a
\* burst during which no time has passed closes only as the full batch of
\* the burst's first max_batch_size requests, and once the burst is
\* complete the open window is runnable on the arrival event, without the
\* timeout.
C8_BurstIsOneFullBatch ==
  /\ (lastClosed.reqs # <<>> /\ lastClosed.burst.first = lastClosed.reqs[1]) =>
       /\ lastClosed.burst.n >= lastClosed.snapshot.max_batch_size
       /\ lastClosed.reqs = Run(lastClosed.burst.first,
                                lastClosed.snapshot.max_batch_size)
  /\ (wpc = "wait" /\ burst.first = batch[1]
        /\ burst.n >= snapshot.max_batch_size) => event

C8_Witness ==
  /\ lastClosed.reqs = Run(1, BatchMaxBatchSize)
  /\ lastClosed.burst = [first |-> 1, n |-> BatchMaxBatchSize]
  /\ lastClosed.elapsed = 0
  /\ Len(submitted) = BatchMaxBatchSize
  /\ wpc = "process"

\* C9: a window closing with fewer than max_batch_size requests closes no
\* earlier than batch_wait_timeout after it opened, and its batch is exactly
\* the requests submitted up to then that no earlier batch holds, in
\* submission order.
C9_ShortBatchClosesOnTimeout ==
  (lastClosed.reqs # <<>>
     /\ Len(lastClosed.reqs) < lastClosed.snapshot.max_batch_size) =>
    /\ lastClosed.elapsed >= lastClosed.snapshot.batch_wait_timeout_s
    /\ lastClosed.reqs =
         Run(lastClosed.upto - Len(lastClosed.reqs) + 1, Len(lastClosed.reqs))
    /\ \A i \in 1..lastClosed.upto : assigned[i] = 1

C9_Witness ==
  /\ lastClosed.reqs = <<2, 3, 4>>
  /\ lastClosed.elapsed = BatchWaitTimeoutS
  /\ lastClosed.upto = 4
  /\ Len(submitted) = 5
  /\ queue = <<5>>

\* the number of positions of seq that hold x
Occurrences(seq, x) == Cardinality({k \in DOMAIN seq : seq[k] = x})

\* C10: every submitted request is in exactly one place: waiting on the
\* queue, in the open window, or in exactly one closed batch; the batch
\* being run is the batch that was frozen, holds no request submitted after
\* the freeze, and is what the adapter was given.
C10_EachRequestInExactlyOneBatch ==
  /\ \A i \in DOMAIN submitted :
       Occurrences(queue, i) + Occurrences(batch, i) + assigned[i] = 1
  /\ wpc = "process" =>
       /\ invoking = lastClosed.reqs
       /\ \A k \in DOMAIN invoking : invoking[k] <= lastClosed.upto
       /\ ipc \in {"start", "loop", "returned"} =>
            requests = [k \in DOMAIN invoking |-> submitted[invoking[k]]]

C10_Witness ==
  /\ wpc = "wait"
  /\ batch = <<3>>
  /\ queue = <<4>>
  /\ assigned = <<1, 1, 0, 0>>
  /\ outcome[1].status = "result"
  /\ outcome[2].status = "result"


\* C11: every submitted request eventually receives a Result, also when the
\* adapter call fails.  Stated on the runs that have come to rest: once no
\* request waits and no window is open or being processed, every submitted
\* request has received a Result.
C11_SettledRequestsHaveResults ==
  (queue = <<>> /\ wpc = "get") =>
    \A i \in DOMAIN outcome : outcome[i].status = "result"


\* C12: over every sequence of infer calls, among them first calls whose
\* requests were submitted together, Llama(...) is constructed at most once,
\* and a model is held exactly when that one construction has returned, so
\* later calls run on the instance the first construction produced.
C12_ModelLoadedAtMostOnce ==
  /\ loads <= 1
  /\ (model = None) <=> (loads = 0)

\* a later infer call is past start() on the model loaded by an earlier
\* call
C12_Witness ==
  /\ ipc = "loop"
  /\ loads = 1
  /\ invoking # <<>>
  /\ \E i \in DOMAIN outcome : outcome[i].status = "result"


\* C14: every batch handed to the adapter holds at least one request and at
\* most max_batch_size requests, max_batch_size being the value cached when
\* the batch's window opened; reconfigure calls made meanwhile do not change
\* that.
C14_BatchSizeWithinSnapshot ==
  wpc = "process" =>
    /\ Len(invoking) >= 1
    /\ Len(invoking) <= snapshot.max_batch_size
    /\ lastClosed.snapshot = snapshot
    /\ ipc = "start" => Len(requests) = Len(invoking)

\* a batch as large as its window allowed is with the adapter, after a
\* reconfigure call asking for a smaller max_batch_size
C14_Witness ==
  /\ wpc = "process"
  /\ ipc = "start"
  /\ Len(requests) = snapshot.max_batch_size
  /\ reconfigured.called
  /\ max_batch_size < snapshot.max_batch_size


\* C15: at most one batch is being run by the adapter at any time.  An
\* adapter call is in progress exactly while the dispatcher processes one
\* closed batch, the call's requests are those of that batch, and every
\* request of a closed batch still without an outcome belongs to it.
C15_OneBatchInvoking ==
  /\ (ipc # "idle") <=> (wpc = "process")
  /\ wpc = "process" =>
       /\ invoking = lastClosed.reqs
       /\ requests = [k \in DOMAIN invoking |-> submitted[invoking[k]]]
  /\ \A i \in DOMAIN outcome :
       (assigned[i] >= 1 /\ outcome[i].status = "pending") =>
         /\ wpc = "process"
         /\ \E k \in DOMAIN invoking : invoking[k] = i

\* the adapter runs a later batch while a further request waits for the
\* next window
C15_Witness ==
  /\ wpc = "process"
  /\ ipc = "loop"
  /\ idx > 1
  /\ queue # <<>>
  /\ loads = 1


\* C16: a reconfigure call changes only the batch configuration.  Every step
\* that changes the recorded configuration leaves the waiting requests, the
\* batch being accumulated or run, the outcomes already given and the loaded
\* model as they were: no request is rejected or put back on the queue.
C16_ReconfigureChangesOnlyConfig ==
  [][cvars' # cvars =>
       /\ UNCHANGED <<submitted, queue, batch, invoking, outcome, assigned>>
       /\ UNCHANGED <<model, loads>>
       /\ UNCHANGED <<ivars, dvars>>]_vars

\* a reconfigure call has run while a window was open with requests in the
\* batch and on the queue, and a model loaded
C16_Witness ==
  /\ reconfigured.called
  /\ max_batch_size # snapshot.max_batch_size
  /\ wpc = "wait"
  /\ batch # <<>>
  /\ queue # <<>>
  /\ model # None


\* the pair of one batch configuration: the one the deployment starts with,
\* or the one a reconfigure call derives from its user_config
ConfigPairs ==
  { [max_batch_size |-> BatchMaxBatchSize,
     batch_wait_timeout_s |-> BatchWaitTimeoutS] } \cup
  { [max_batch_size |-> RecordedMaxBatchSize(c),
     batch_wait_timeout_s |-> RecordedBatchWaitTimeoutS(c)] : c \in UserConfigs }

\* C17: the pair (max_batch_size, batch_wait_timeout_s) a window works with
\* is the pair of one single batch configuration, never max_batch_size of
\* one and batch_wait_timeout_s of another, also after a reconfigure call
\* that failed part-way; the same holds of the pair the queue would give
\* the next window.
C17_WindowPairFromOneConfig ==
  /\ snapshot \in ConfigPairs
  /\ [max_batch_size |-> queue_max_batch_size,
      batch_wait_timeout_s |-> queue_timeout_s] \in ConfigPairs

\* a window is open after an earlier window was served, and a reconfigure
\* call that failed on the setter lookup has recorded another pair
C17_Witness ==
  /\ wpc = "wait"
  /\ elapsed = 0
  /\ batch # <<>>
  /\ lastClosed.reqs # <<>>
  /\ reconfigured.called
  /\ reconfigured.user_config = [max_batch_size |-> 0, batch_wait_timeout_s |-> 2]
  /\ snapshot.max_batch_size # max_batch_size


\* C18: a reconfigure call whose user_config omits a key does not keep the
\* value recorded before: after the call max_batch_size is the given value,
\* or 16 when the key is omitted, and batch_wait_timeout_s is the given
\* value, or 0.05 s (one time unit) when the key is omitted, whatever the
\* values were before the call.
C18_OmittedKeyResetsToDefault ==
  reconfigured.called =>
    LET c == reconfigured.user_config
    IN /\ max_batch_size =
            IF "max_batch_size" \in DOMAIN c THEN c["max_batch_size"] ELSE 16
       /\ batch_wait_timeout_s =
            IF "batch_wait_timeout_s" \in DOMAIN c
            THEN c["batch_wait_timeout_s"] ELSE 1

\* a call that omits batch_wait_timeout_s has put 0.05 s in the place of
\* another value recorded by an earlier call
C18_Witness ==
  /\ reconfigured.called
  /\ reconfigured.user_config = [max_batch_size |-> 2]
  /\ "batch_wait_timeout_s" \in reconfigured.replaced
  /\ batch_wait_timeout_s = 1


\* C19: the adapter's load state moves only from unloaded to loaded.  Once a
\* model is held no step replaces it or constructs another; a load attempt
\* that raises leaves the adapter unloaded; and an infer call entered while
\* unloaded attempts the load, so it goes on only by loading or by raising.
C19_LoadStateMonotone ==
  [][/\ model # None => (model' = model /\ loads' = loads)
     /\ (ipc = "start" /\ ipc' = "raised") => (model' = None /\ loads' = loads)
     /\ (ipc = "start" /\ model = None /\ ipc' # ipc) =>
          \/ ipc' = "raised"
          \/ (ipc' = "loop" /\ model' # None /\ loads' = loads + 1)]_vars

\* a load attempt raised for an earlier batch, and a later infer call
\* loaded the model and returned a Result
C19_Witness ==
  /\ loads = 1
  /\ model # None
  /\ \E i, j \in DOMAIN outcome :
       /\ i < j
       /\ outcome[i] = RaisedOutcome
       /\ outcome[j].status = "result"

====
